---- MODULE Spec2Model ----
(***************************************************************************)
(* The terminal interaction loop of kakapo: model.Update of src/main.go    *)
(* and of its earlier variant src/unnamed/part_000, with the Bubble Tea    *)
(* widgets it drives (textarea, viewport), the word wrapping and styling   *)
(* it applies to each transcript line and the blocking model call.         *)
(*                                                                         *)
(* A text is a sequence of one-character strings.  The handler of the      *)
(* Enter key is two steps, split at the blocking call to callClaudeLLM:    *)
(* everything up to the issue of the call, then everything from its        *)
(* return.  No other event is dispatched in between, as the call runs on   *)
(* the event loop's own thread.                                            *)
(***************************************************************************)
EXTENDS Integers, Sequences, FiniteSets, TLC

(* ------------------------------ bounds --------------------------------- *)
\* input.CharLimit = 2048, scaled down by 2048 so that the limit is reached
CharLimit == 2048 \div 2048
\* commits (model calls) per run
MaxCommits == 2

\* uint(width-25) wraps modulo 2^64 for width < 25; every value above the
\* longest text of the model wraps one identically.
UintModulus == 1073741824

(* ------------------------------ alphabet ------------------------------- *)
NL == "\n"
Runes == {"a", " "}
Builds == {"main", "part_000"}
\* (columns, rows) the terminal reports; <<0,0>> is what GetSize yields when
\* it fails (its error is discarded)
TermSizes == {<<0, 0>>, <<27, 9>>}
\* replies of the model, as texts
Replies == {<<"b", " ", "b">>}
QuitKeys == {"ctrl+c", "esc"}
ScrollKeys == {"up", "down"}
Errors == {"e1"}
\* the options of llm.Call: WithMaxTokens(2048), WithTemperature(0.5) in
\* tenths, WithTopK(250)
CallOptions == [maxTokens |-> 2048, temperatureTenths |-> 5, topK |-> 250]
\* no call has been made
NoOptions == [maxTokens |-> 0, temperatureTenths |-> 0, topK |-> 0]

UserStyle == "<user>"
BotStyle == "<bot>"
BotItalicStyle == "<bot-italic>"
StyleEnd == "</>"
StyleTokens == {UserStyle, BotStyle, BotItalicStyle, StyleEnd}

YouPrefix == <<"Y", "o", "u", ":", " ">>
ClaudePrefix == <<"C", "l", "a", "u", "d", "e", ":">>
ErrorText ==
  <<"E", "r", "r", "o", "r", " ", "p", "r", "o", "c", "e", "s", "s", "i", "n", "g", " ",
    "y", "o", "u", "r", " ", "r", "e", "q", "u", "e", "s", "t", ".">>
WelcomeText ==
  <<"W", "e", "l", "c", "o", "m", "e", NL, "T", "y", "p", "e">>
EnterText == <<"e", "n", "t", "e", "r", "e", "d">>

(* ------------------------------ helpers -------------------------------- *)
Max(a, b) == IF a > b THEN a ELSE b
Min(a, b) == IF a < b THEN a ELSE b
Clamp(v, lo, hi) == Max(lo, Min(hi, v))

\* uint(n) of Go
ToUint(n) == IF n < 0 THEN UintModulus + n ELSE n

\* strings.Join(elems, "\n")
RECURSIVE JoinNL(_)
JoinNL(elems) ==
  IF elems = <<>> THEN <<>>
  ELSE IF Len(elems) = 1 THEN elems[1]
  ELSE elems[1] \o <<NL>> \o JoinNL(Tail(elems))

\* strings.Split(s, "\n")
RECURSIVE SplitNL(_)
SplitNL(s) ==
  IF \A i \in 1..Len(s) : s[i] # NL THEN <<s>>
  ELSE LET k == CHOOSE i \in 1..Len(s) : s[i] = NL /\ \A j \in 1..(i-1) : s[j] # NL
       IN <<SubSeq(s, 1, k - 1)>> \o SplitNL(SubSeq(s, k + 1, Len(s)))

\* lipgloss Style.Render: the text between the style's escape sequences
Render(style, s) == <<style>> \o s \o <<StyleEnd>>

\* a rendered line without its styling
IsText(c) == c \notin StyleTokens
Unstyled(s) == SelectSeq(s, IsText)

\* wordwrap.WrapString(s, lim)
RECURSIVE WrapFrom(_, _, _, _, _, _, _)
WrapFrom(s, i, lim, buf, cur, word, space) ==
  IF i > Len(s)
  THEN IF word = <<>>
       THEN (IF cur + Len(space) <= lim THEN buf \o space ELSE buf)
       ELSE buf \o space \o word
  ELSE LET c == s[i] IN
    IF c = NL
    THEN IF word = <<>>
         THEN IF cur + Len(space) > lim
              THEN WrapFrom(s, i + 1, lim, buf \o <<c>>, 0, <<>>, <<>>)
              ELSE WrapFrom(s, i + 1, lim, buf \o space \o <<c>>, 0, <<>>, <<>>)
         ELSE WrapFrom(s, i + 1, lim, buf \o space \o word \o <<c>>, 0, <<>>, <<>>)
    ELSE IF c = " "
    THEN IF space = <<>> \/ word # <<>>
         THEN WrapFrom(s, i + 1, lim, buf \o space \o word,
                       cur + Len(space) + Len(word), <<>>, <<c>>)
         ELSE WrapFrom(s, i + 1, lim, buf, cur, word, space \o <<c>>)
    ELSE LET w2 == word \o <<c>> IN
         IF cur + Len(w2) + Len(space) > lim /\ Len(w2) < lim
         THEN WrapFrom(s, i + 1, lim, buf \o <<NL>>, 0, w2, <<>>)
         ELSE WrapFrom(s, i + 1, lim, buf, cur, w2, space)

WrapString(s, lim) == WrapFrom(s, 1, lim, <<>>, 0, <<>>, <<>>)

(* ------------------------------ state ---------------------------------- *)
VARIABLES
  build,          \* which variant of main.go runs
  claudeLLM,      \* m.claudeLLM: "handle" or "nil"
  claudeInitErr,  \* m.claudeInitErr: TRUE when initialization failed
  err,            \* m.err: "nil" or the last errMsg
  messages,       \* m.messages: the transcript, rendered lines
  input,          \* m.input: the textarea's value
  focus,          \* m.input: whether the textarea is focused
  charLimit,      \* m.input.CharLimit (0: none)
  insertNewline,  \* m.input.KeyMap.InsertNewline is enabled
  vpLines,        \* m.messagesVP: the content, as lines
  YOffset,        \* m.messagesVP.YOffset
  vpHeight,       \* m.messagesVP.Height
  termCols,       \* columns of the terminal
  termRows,       \* rows of the terminal
  width,          \* Update's local width (main.go)
  pc,             \* "idle", "awaiting" (inside callClaudeLLM), "terminal", "crashed"
  pending,        \* the prompt of the outstanding call
  calls,          \* model calls issued so far
  heldMessages,   \* m.messages of the model value the event loop holds: Update has a
                  \* value receiver and works on a copy until it returns
  heldInput,      \* m.input's value in the model value the event loop holds
  layout,         \* the dimensions initialModel derived from the size it was given
  callOptions     \* the options of the last llm.Call

vars == <<build, claudeLLM, claudeInitErr, err, messages, input, focus, charLimit,
          insertNewline, vpLines, YOffset, vpHeight, termCols, termRows, width,
          pc, pending, calls, heldMessages, heldInput, layout, callOptions>>

(* ------------------------------ widgets -------------------------------- *)
\* viewport.Model: maxYOffset, SetYOffset, AtBottom, GotoBottom, Update
MaxYOffset(lines, h) == Max(0, Len(lines) - h)
SetYOffset(n, lines, h) == Clamp(n, 0, MaxYOffset(lines, h))
AtBottom(lines, y, h) == y >= MaxYOffset(lines, h)
GotoBottom(lines, h) == SetYOffset(MaxYOffset(lines, h), lines, h)

\* m.messagesVP.Update(msg): space pages down, the arrows move one line
ViewportUpdate(k, lines, y, h) ==
  IF k = " " THEN (IF AtBottom(lines, y, h) THEN y ELSE SetYOffset(y + h, lines, h))
  ELSE IF k = "down" THEN (IF AtBottom(lines, y, h) THEN y ELSE SetYOffset(y + 1, lines, h))
  ELSE IF k = "up" THEN (IF y <= 0 THEN y ELSE SetYOffset(y - 1, lines, h))
  ELSE y

\* a faulty textarea without the character limit
TextareaUpdateNoLimit(k, value, focused, limit, newlineOn) ==
  IF ~focused THEN value
  ELSE IF k \in Runes THEN Append(value, k)
  ELSE IF k = "enter" THEN (IF newlineOn THEN Append(value, NL) ELSE value)
  ELSE IF k = "backspace"
       THEN (IF value = <<>> THEN value ELSE SubSeq(value, 1, Len(value) - 1))
  ELSE value

\* m.input.Update(msg), the cursor at the end of the value: an unfocused
\* textarea ignores the event; a rune is dropped at the character limit;
\* Enter inserts a line break when KeyMap.InsertNewline is enabled
TextareaUpdate(k, value, focused, limit, newlineOn) ==
  IF ~focused THEN value
  ELSE IF k \in Runes
       THEN (IF limit > 0 /\ Len(value) >= limit THEN value ELSE Append(value, k))
  ELSE IF k = "enter" THEN (IF newlineOn THEN Append(value, NL) ELSE value)
  ELSE IF k = "backspace"
       THEN (IF value = <<>> THEN value ELSE SubSeq(value, 1, Len(value) - 1))
  ELSE value

(* ------------------------------ lines ---------------------------------- *)
\* the width the two builds wrap to: main.go wraps to uint(width-25),
\* part_000 does not wrap
WrapFor(b, s, w) == IF b = "main" THEN WrapString(s, ToUint(w - 25)) ELSE s

\* the user's line
UserLine(b, userInput, w) == Render(UserStyle, YouPrefix \o WrapFor(b, userInput, w))

\* the line of a reply
ReplyLine(b, response, w) == Render(BotStyle, ClaudePrefix \o WrapFor(b, response, w))

\* the line of a failed call
ErrorLine(b) ==
  IF b = "main" THEN Render(BotStyle, ClaudePrefix \o ErrorText)
  ELSE Render(BotStyle, ClaudePrefix \o <<" ">> \o ErrorText)

\* the welcome content of the message pane
WelcomeMessage(b) ==
  <<(IF b = "main" THEN WelcomeText ELSE <<NL, NL>> \o WelcomeText),
    Render(BotItalicStyle, EnterText)>>

(* ------------------------------ layout --------------------------------- *)
\* initialModel(width, height): the dimensions it derives for the sidebar,
\* the message viewport and the textarea; main.go keeps 25 columns for the
\* sidebar, part_000 half of the columns
InitialLayout(b, cols, rows) ==
  IF b = "main"
  THEN [cols |-> cols, rows |-> rows,
        sidebarVPWidth |-> 25, sidebarVPHeight |-> rows - 2,
        messagesVPWidth |-> cols - 25, messagesVPHeight |-> rows - 7,
        inputTextareaWidth |-> cols - 25, inputTextareaHeight |-> 5]
  ELSE [cols |-> cols, rows |-> rows,
        sidebarVPWidth |-> cols \div 2, sidebarVPHeight |-> rows,
        messagesVPWidth |-> cols - (cols \div 2), messagesVPHeight |-> rows - 7,
        inputTextareaWidth |-> cols - (cols \div 2), inputTextareaHeight |-> 5]

\* View of main.go: the heights and widths its styles give the regions of
\* the frame, from the terminal's size at the time of the render
ViewRegions(cols, rows) ==
  [headerHeight |-> 1, headerWidth |-> cols,
   sidebarWidth |-> 25, sidebarHeight |-> rows - 2,
   messageWidth |-> cols - 25, messageHeight |-> rows - 7,
   textareaWidth |-> cols - 25, textareaHeight |-> 5,
   statusHeight |-> 1]

\* messageViewStyle.Render(messagesView): the style's Height is a least
\* height, so the block keeps every line of the viewport's view, which has
\* the viewport's Height lines, and is padded up to the style's height
RenderedMessageHeight(vh, cols, rows) == Max(vh, ViewRegions(cols, rows).messageHeight)

(* ------------------------------ Init ----------------------------------- *)
\* initialModel(width, height), initialization succeeded
InitOK(b, sz) ==
  /\ build = b
  /\ claudeLLM = "handle"
  /\ claudeInitErr = FALSE
  /\ err = "nil"
  /\ messages = <<>>
  /\ input = <<>>
  /\ focus = TRUE
  /\ charLimit = CharLimit
  /\ insertNewline = TRUE
  /\ vpLines = SplitNL(JoinNL(WelcomeMessage(b)))
  /\ YOffset = 0
  /\ vpHeight = InitialLayout(b, sz[1], sz[2]).messagesVPHeight

\* initialModel(width, height), initialization failed: every field but
\* claudeInitErr has its zero value
InitFailed(b) ==
  /\ build = b
  /\ claudeLLM = "nil"
  /\ claudeInitErr = TRUE
  /\ err = "nil"
  /\ messages = <<>>
  /\ input = <<>>
  /\ focus = FALSE
  /\ charLimit = 0
  /\ insertNewline = FALSE
  /\ vpLines = <<>>
  /\ YOffset = 0
  /\ vpHeight = 0

Init ==
  /\ \E b \in Builds, sz \in TermSizes :
       /\ termCols = sz[1]
       /\ termRows = sz[2]
       /\ layout = InitialLayout(b, sz[1], sz[2])
       /\ (InitOK(b, sz) \/ InitFailed(b))
  /\ width = 0
  /\ pc = "idle"
  /\ pending = <<>>
  /\ calls = 0
  /\ heldMessages = <<>>
  /\ heldInput = <<>>
  /\ callOptions = NoOptions

(* ------------------------------ Update --------------------------------- *)
\* faulty appends: the line twice, and the line in front
AppendTwice(ms, line) == ms \o <<line, line>>
AppendInFront(ms, line) == <<line>> \o ms

\* m.messages = append(m.messages, line)
AppendMessage(ms, line) == Append(ms, line)

\* faulty pane contents: the newest line only, and all but the newest line
PaneContentOfLast(ms) == SplitNL(ms[Len(ms)])
PaneContentStale(ms) == SplitNL(JoinNL(SubSeq(ms, 1, Len(ms) - 1)))

\* m.messagesVP.SetContent(strings.Join(m.messages, "\n"))
PaneContent(ms) == SplitNL(JoinNL(ms))

\* a faulty callClaudeLLM that tries twice
IssueCallTwice(n) == n + 2

\* callClaudeLLM makes one llm.Call: the calls issued after it was invoked
IssueCall(n) == n + 1

\* a faulty callClaudeLLM that sends the newest transcript line with the input
CallPromptWithHistory(userInput) ==
  IF messages = <<>> THEN userInput
  ELSE Unstyled(messages[Len(messages)]) \o <<NL>> \o userInput

\* callClaudeLLM(userInput, m.claudeLLM): the prompt of llm.Call is the
\* input it was given
CallPrompt(userInput) == userInput

\* the outcomes of llm.Call: a reply or an error; on a nil handle the call
\* panics or reports an error
CallOutcomes(llm) ==
  IF llm = "nil" THEN {[kind |-> "panic"], [kind |-> "err"]}
  ELSE {[kind |-> "err"]} \cup {[kind |-> "ok", response |-> r] : r \in Replies}

\* the line appended when the call has returned
BotLine(b, out, w) == IF out.kind = "err" THEN ErrorLine(b) ELSE ReplyLine(b, out.response, w)

\* the local width of Update: term.GetSize in main.go, none in part_000
LocalWidth(b, cols) == IF b = "main" THEN cols ELSE 0

\* a faulty Update that hands a key to the textarea only
UpdateKeyInputOnly(k) ==
  /\ pc = "idle"
  /\ input' = TextareaUpdate(k, input, focus, charLimit, insertNewline)
  /\ heldMessages' = messages
  /\ heldInput' = input'
  /\ UNCHANGED <<callOptions, layout, build, claudeLLM, claudeInitErr, err, messages, focus, charLimit,
                 insertNewline, vpLines, YOffset, vpHeight, termCols, termRows, width, pc,
                 pending, calls>>

\* Update, case tea.KeyMsg of a key that is neither Enter nor a quit key:
\* the textarea and the viewport take the event, nothing else happens
UpdateKey(k) ==
  /\ pc = "idle"
  /\ input' = TextareaUpdate(k, input, focus, charLimit, insertNewline)
  /\ heldMessages' = messages
  /\ heldInput' = input'
  /\ YOffset' = ViewportUpdate(k, vpLines, YOffset, vpHeight)
  /\ UNCHANGED <<callOptions, layout, build, claudeLLM, claudeInitErr, err, messages, focus, charLimit,
                 insertNewline, vpLines, vpHeight, termCols, termRows, width, pc,
                 pending, calls>>

\* Update, a message with no case of its own (window size, cursor blink):
\* both widgets take it and leave their state as it is
UpdateOther(e) ==
  /\ pc = "idle"
  /\ input' = TextareaUpdate(e, input, focus, charLimit, insertNewline)
  /\ heldMessages' = messages
  /\ heldInput' = input'
  /\ YOffset' = ViewportUpdate(e, vpLines, YOffset, vpHeight)
  /\ UNCHANGED <<callOptions, layout, build, claudeLLM, claudeInitErr, err, messages, focus, charLimit,
                 insertNewline, vpLines, vpHeight, termCols, termRows, width, pc,
                 pending, calls>>

\* a faulty quit case that names tea.KeyCtrlC only
UpdateQuitCtrlCOnly(k) ==
  /\ pc = "idle"
  /\ k = "ctrl+c"
  /\ input' = TextareaUpdate(k, input, focus, charLimit, insertNewline)
  /\ heldMessages' = messages
  /\ heldInput' = input'
  /\ YOffset' = ViewportUpdate(k, vpLines, YOffset, vpHeight)
  /\ pc' = "terminal"
  /\ UNCHANGED <<callOptions, layout, build, claudeLLM, claudeInitErr, err, messages, focus, charLimit,
                 insertNewline, vpLines, vpHeight, termCols, termRows, width,
                 pending, calls>>

\* a faulty program whose call runs beside the loop: a quit key is handled
\* while the call is outstanding
UpdateQuitDuringCall(k) ==
  /\ pc \in {"idle", "awaiting"}
  /\ input' = TextareaUpdate(k, input, focus, charLimit, insertNewline)
  /\ heldMessages' = messages
  /\ heldInput' = input'
  /\ YOffset' = ViewportUpdate(k, vpLines, YOffset, vpHeight)
  /\ pc' = "terminal"
  /\ UNCHANGED <<callOptions, layout, build, claudeLLM, claudeInitErr, err, messages, focus, charLimit,
                 insertNewline, vpLines, vpHeight, termCols, termRows, width,
                 pending, calls>>

\* Update, case tea.KeyCtrlC, tea.KeyEsc: return m, tea.Quit
UpdateQuit(k) ==
  /\ pc = "idle"
  /\ input' = TextareaUpdate(k, input, focus, charLimit, insertNewline)
  /\ heldMessages' = messages
  /\ heldInput' = input'
  /\ YOffset' = ViewportUpdate(k, vpLines, YOffset, vpHeight)
  /\ pc' = "terminal"
  /\ UNCHANGED <<callOptions, layout, build, claudeLLM, claudeInitErr, err, messages, focus, charLimit,
                 insertNewline, vpLines, vpHeight, termCols, termRows, width,
                 pending, calls>>

\* a faulty errMsg case that also writes the error into the transcript
UpdateErrMsgAppends(e) ==
  /\ pc = "idle"
  /\ input' = TextareaUpdate("errMsg", input, focus, charLimit, insertNewline)
  /\ heldInput' = input'
  /\ err' = e
  /\ messages' = AppendMessage(messages, ErrorLine(build))
  /\ heldMessages' = AppendMessage(messages, ErrorLine(build))
  /\ vpLines' = PaneContent(AppendMessage(messages, ErrorLine(build)))
  /\ YOffset' = GotoBottom(PaneContent(AppendMessage(messages, ErrorLine(build))), vpHeight)
  /\ UNCHANGED <<callOptions, layout, build, claudeLLM, claudeInitErr, focus, charLimit,
                 insertNewline, vpHeight, termCols, termRows, width, pc,
                 pending, calls>>

\* Update, case errMsg: m.err = msg; return m, nil
UpdateErrMsg(e) ==
  /\ pc = "idle"
  /\ input' = TextareaUpdate("errMsg", input, focus, charLimit, insertNewline)
  /\ heldMessages' = messages
  /\ heldInput' = input'
  /\ YOffset' = ViewportUpdate("errMsg", vpLines, YOffset, vpHeight)
  /\ err' = e
  /\ UNCHANGED <<callOptions, layout, build, claudeLLM, claudeInitErr, messages, focus, charLimit,
                 insertNewline, vpLines, vpHeight, termCols, termRows, width, pc,
                 pending, calls>>

\* a faulty Enter case without m.input.Reset()
UpdateEnterKeepsInput ==
  /\ pc = "idle"
  /\ calls < MaxCommits
  /\ LET w == LocalWidth(build, termCols)
         userInput == TextareaUpdate("enter", input, focus, charLimit, insertNewline)
         ms == AppendMessage(messages, UserLine(build, userInput, w))
         lines == PaneContent(ms)
     IN /\ heldMessages' = messages
        /\ heldInput' = input
        /\ width' = w
        /\ messages' = ms
        /\ input' = userInput
        /\ vpLines' = lines
        /\ YOffset' = GotoBottom(lines, vpHeight)
        /\ pending' = CallPrompt(userInput)
        /\ calls' = IssueCall(calls)
        /\ callOptions' = CallOptions
        /\ pc' = "awaiting"
  /\ UNCHANGED <<layout, build, claudeLLM, claudeInitErr, err, focus, charLimit, insertNewline,
                 vpHeight, termCols, termRows>>

\* Update, case tea.KeyEnter, up to the issue of callClaudeLLM: the widgets
\* take the key, the value is read, the user's line is appended, the
\* textarea is reset, the pane gets the transcript and goes to the bottom
UpdateEnter ==
  /\ pc = "idle"
  /\ calls < MaxCommits
  /\ LET w == LocalWidth(build, termCols)
         userInput == TextareaUpdate("enter", input, focus, charLimit, insertNewline)
         ms == AppendMessage(messages, UserLine(build, userInput, w))
         lines == PaneContent(ms)
         y == ViewportUpdate("enter", vpLines, YOffset, vpHeight)
     IN /\ heldMessages' = messages
        /\ heldInput' = input
        /\ width' = w
        /\ messages' = ms
        /\ input' = <<>>
        /\ vpLines' = lines
        /\ YOffset' = GotoBottom(lines, vpHeight)
        /\ pending' = CallPrompt(userInput)
        /\ calls' = IssueCall(calls)
        /\ callOptions' = CallOptions
        /\ pc' = "awaiting"
  /\ UNCHANGED <<layout, build, claudeLLM, claudeInitErr, err, focus, charLimit, insertNewline,
                 vpHeight, termCols, termRows>>

\* Update, case tea.KeyEnter, from the return of callClaudeLLM: the reply's
\* or the error's line is appended, the pane gets the transcript and goes
\* to the bottom
CallReturn ==
  /\ pc = "awaiting"
  /\ \E out \in CallOutcomes(claudeLLM) :
       IF out.kind = "panic"
       THEN /\ pc' = "crashed"
            /\ UNCHANGED <<messages, vpLines, YOffset, width, pending, heldMessages,
                           heldInput>>
       ELSE LET ms == AppendMessage(messages, BotLine(build, out, width))
                lines == PaneContent(ms)
            IN /\ messages' = ms
               /\ vpLines' = lines
               /\ YOffset' = GotoBottom(lines, vpHeight)
               /\ width' = 0
               /\ pending' = <<>>
               /\ heldMessages' = ms
               /\ heldInput' = input
               /\ pc' = "idle"
  /\ UNCHANGED <<callOptions, layout, build, claudeLLM, claudeInitErr, err, input, focus, charLimit,
                 insertNewline, vpHeight, termCols, termRows, calls>>

\* the terminal is resized, at any time while the program runs
Resize ==
  /\ pc \in {"idle", "awaiting"}
  /\ \E sz \in TermSizes :
       /\ <<termCols, termRows>> # sz
       /\ termCols' = sz[1]
       /\ termRows' = sz[2]
  /\ UNCHANGED <<callOptions, layout, build, claudeLLM, claudeInitErr, err, messages, input, focus, charLimit,
                 insertNewline, vpLines, YOffset, vpHeight, width, pc, pending,
                 calls, heldMessages, heldInput>>

Next ==
  \/ \E k \in Runes \cup ScrollKeys \cup {"backspace"} : UpdateKey(k)
  \/ \E e \in {"resize", "blink"} : UpdateOther(e)
  \/ \E k \in QuitKeys : UpdateQuit(k)
  \/ \E e \in Errors : UpdateErrMsg(e)
  \/ UpdateEnter
  \/ CallReturn
  \/ Resize

Spec == Init /\ [][Next]_vars

(* ------------------------------ layout runs ---------------------------- *)
\* the sizes the layout is checked on: the degenerate 1, the first sizes
\* with room for every region, and the sizes of the resize scenario
LayoutCols == {1, 26, 40, 100}
LayoutRows == {1, 8, 10, 40}
LayoutSizes == LayoutCols \X LayoutRows

\* main: the program is started on a terminal of any of these sizes
LayoutInit ==
  /\ \E b \in Builds, sz \in LayoutSizes :
       /\ termCols = sz[1]
       /\ termRows = sz[2]
       /\ layout = InitialLayout(b, sz[1], sz[2])
       /\ (InitOK(b, sz) \/ InitFailed(b))
  /\ width = 0
  /\ pc = "idle"
  /\ pending = <<>>
  /\ calls = 0
  /\ heldMessages = <<>>
  /\ heldInput = <<>>
  /\ callOptions = NoOptions

\* the terminal is resized to any of these sizes and Update has handled the
\* tea.WindowSizeMsg of the resize: no case names it, the two widgets take it
LayoutResize ==
  /\ pc = "idle"
  /\ \E sz \in LayoutSizes :
       /\ <<termCols, termRows>> # sz
       /\ termCols' = sz[1]
       /\ termRows' = sz[2]
  /\ input' = TextareaUpdate("resize", input, focus, charLimit, insertNewline)
  /\ YOffset' = ViewportUpdate("resize", vpLines, YOffset, vpHeight)
  /\ heldMessages' = messages
  /\ heldInput' = input'
  /\ UNCHANGED <<callOptions, layout, build, claudeLLM, claudeInitErr, err, messages, focus,
                 charLimit, insertNewline, vpLines, vpHeight, width, pc, pending,
                 calls>>

LayoutNext == LayoutResize

LayoutSpec == LayoutInit /\ [][LayoutNext]_vars

TypeOK ==
  /\ build \in Builds
  /\ pc \in {"idle", "awaiting", "terminal", "crashed"}
  /\ calls \in 0..MaxCommits
  /\ Len(input) <= Max(charLimit, 0)

(* ------------------------------ properties ----------------------------- *)
IsPrefix(p, q) == Len(p) <= Len(q) /\ SubSeq(q, 1, Len(p)) = p
IsSuffix(p, q) == Len(p) <= Len(q) /\ SubSeq(q, Len(q) - Len(p) + 1, Len(q)) = p
Last(q) == q[Len(q)]
\* a text without its blanks and line breaks, which is all that wrapping changes
IsLetter(c) == c # " " /\ c # NL
Letters(s) == SelectSeq(s, IsLetter)
\* the text of a rendered line after a speaker prefix
AfterPrefix(line, prefix) == SubSeq(Unstyled(line), Len(prefix) + 1, Len(Unstyled(line)))
HasPrefix(line, prefix) == IsPrefix(prefix, Unstyled(line))
IsUserEntry(line) == line[1] = UserStyle
IsErrorEntry(line) == line[1] = BotStyle /\ IsSuffix(ErrorText, Unstyled(line))
IsReplyEntry(line) == line[1] = BotStyle /\ ~IsErrorEntry(line)

\* C1: every Enter dispatched with a non-empty buffer leaves the transcript
\* exactly 2 entries longer when its handler has completed, on a reply and on
\* an error alike: the user's line at the issue of the call, one more line
\* at its return, and nothing in between.
C1_CommitAppendsTwo ==
  [][ /\ (UpdateEnter /\ input # <<>> =>
            /\ pc' = "awaiting"
            /\ heldMessages' = messages /\ heldInput' = input
            /\ Len(messages') = Len(messages) + 1
            /\ IsUserEntry(Last(messages')))
      /\ (pc = "awaiting" /\ heldInput # <<>> =>
            \/ pc' = "awaiting" /\ messages' = messages
                 /\ UNCHANGED <<heldMessages, heldInput>>
            \/ /\ pc' = "idle"
               /\ Len(messages') = Len(heldMessages) + 2
               /\ IsUserEntry(messages'[Len(messages') - 1])
               /\ IsReplyEntry(Last(messages')) \/ IsErrorEntry(Last(messages')))
    ]_vars

\* two commits of a non-empty buffer completed, one failed and one answered
C1_Witness ==
  /\ pc = "idle"
  /\ Len(messages) = 4
  /\ AfterPrefix(messages[1], YouPrefix) = <<"a", NL>>
  /\ Letters(AfterPrefix(messages[3], YouPrefix)) = <<"a">>
  /\ \E i, j \in {2, 4} : IsErrorEntry(messages[i]) /\ IsReplyEntry(messages[j])

\* C2 (as stated): an Enter dispatched on an empty buffer changes nothing: no
\* transcript entry, no model call.
C2_EmptyCommitIsNoOp ==
  [][UpdateEnter /\ input = <<>> => UNCHANGED <<messages, calls, pc>>]_vars

\* C3: the transcript before any step is a prefix of the transcript after it.
C3_AppendOnly == [][IsPrefix(messages, messages')]_vars

\* a line has been appended to a transcript that held lines already
C3_Witness == Len(messages) = 3 /\ pc = "awaiting" /\ Len(heldMessages) = 2

\* C4 (as stated): in every reachable state the pane content is the
\* transcript joined by line breaks.
C4_PaneIsTranscript == JoinNL(vpLines) = JoinNL(messages)

\* C4 (amended): once a commit key has been dispatched the pane content is
\* the transcript joined by line breaks, also while the call is outstanding;
\* before the first commit a constructed Session shows the welcome text next
\* to an empty transcript.
C4_PaneIsTranscriptOnceCommitted ==
  /\ messages # <<>> => JoinNL(vpLines) = JoinNL(messages)
  /\ messages = <<>> /\ ~claudeInitErr =>
       JoinNL(vpLines) = JoinNL(WelcomeMessage(build)) /\ JoinNL(vpLines) # <<>>

\* a call is outstanding on a transcript of three lines, all of them in the pane
C4_Witness == pc = "awaiting" /\ Len(messages) = 3 /\ Len(vpLines) >= 3

C6_ReplyTranscript ==
  [][pc = "awaiting" /\ heldInput # <<>> /\ pc' = "idle"
       /\ IsReplyEntry(Last(messages')) =>
       /\ Len(messages') = Len(heldMessages) + 2
       /\ Unstyled(messages'[Len(messages') - 1]) = YouPrefix \o heldInput
       /\ \E r \in Replies : Unstyled(Last(messages')) = ClaudePrefix \o <<" ">> \o r
       /\ AtBottom(vpLines', YOffset', vpHeight')
    ]_vars

\* C7 (as stated): when a call returns an error the handler completes with
\* the transcript two entries longer, "You: " x and the fixed
\* "Claude: Error processing your request.", and the loop is idle again.
C7_ErrorTranscript ==
  [][pc = "awaiting" /\ heldInput # <<>> /\ pc' # "awaiting"
       /\ ~IsReplyEntry(Last(messages')) =>
       /\ pc' = "idle"
       /\ Len(messages') = Len(heldMessages) + 2
       /\ Unstyled(messages'[Len(messages') - 1]) = YouPrefix \o heldInput
       /\ Unstyled(Last(messages')) = ClaudePrefix \o <<" ">> \o ErrorText
    ]_vars

UserEntries(ms) == Cardinality({i \in 1..Len(ms) : IsUserEntry(ms[i])})
BotEntries(ms) == Cardinality({i \in 1..Len(ms) : ~IsUserEntry(ms[i])})

\* C8: the model calls issued are as many as the user lines in the
\* transcript, every answer line belongs to a call of its own, and the one
\* step that issues a call is the dispatch of a commit: the return of a
\* call, failed or not, issues none.
C8_SingleAttempt ==
  /\ [](/\ calls = UserEntries(messages)
        /\ BotEntries(messages) = calls - (IF pc \in {"awaiting", "crashed"} THEN 1 ELSE 0))
  /\ [][ /\ (pc = "awaiting" => calls' = calls)
         /\ (calls' # calls =>
               /\ calls' = calls + 1
               /\ pc = "idle" /\ pc' = "awaiting"
               /\ UserEntries(messages') = UserEntries(messages) + 1)
       ]_vars

\* a call has failed and the next commit has issued the second call
C8_Witness ==
  /\ pc = "awaiting" /\ calls = 2
  /\ Len(messages) = 3 /\ IsErrorEntry(messages[2])

\* C9: either quit key can be dispatched whenever the loop is idle, also
\* after a failed initialization; its step ends the loop without a model
\* call and without touching the transcript, and nothing changes afterwards.
C9_QuitIsTerminal ==
  /\ [](pc = "idle" => \A k \in QuitKeys : ENABLED UpdateQuit(k))
  /\ [][(\E k \in QuitKeys : UpdateQuit(k)) =>
          /\ pc' = "terminal"
          /\ UNCHANGED <<messages, calls, pending, err, claudeInitErr>>]_vars
  /\ [][pc # "terminal"]_vars

\* the loop has ended on a quit key after a failed initialization
C9_Witness == pc = "terminal" /\ claudeInitErr /\ claudeLLM = "nil"

\* C10 (as stated): after a failed initialization no step appends to the
\* transcript or issues a model call, and the error stays recorded.
C10_InitFailureIsInert ==
  [][claudeInitErr => UNCHANGED <<messages, calls>> /\ claudeInitErr']_vars

\* C11 (as stated): for a terminal of at least one column and one row, every
\* dimension initialModel derives is at least 1.
C11_LayoutAtLeastOne ==
  layout.cols >= 1 /\ layout.rows >= 1 =>
    /\ layout.sidebarVPWidth >= 1 /\ layout.sidebarVPHeight >= 1
    /\ layout.messagesVPWidth >= 1 /\ layout.messagesVPHeight >= 1
    /\ layout.inputTextareaWidth >= 1 /\ layout.inputTextareaHeight >= 1

\* C12 (as stated): the text sent to the model on a commit is the input
\* buffer as it was immediately before the commit key, and neither it nor
\* the user's line ends in a line break that key added.
C12_CommitSendsBuffer ==
  pc = "awaiting" =>
    /\ pending = heldInput
    /\ ~IsSuffix(<<NL>>, AfterPrefix(Last(messages), YouPrefix))

\* the session fields that only a dispatched event can change
SessionFields ==
  <<messages, input, err, vpLines, YOffset, vpHeight, calls, pending, focus,
    claudeInitErr, heldMessages, heldInput>>

\* C13: while a call is outstanding no event can be dispatched, quit keys
\* included, and exactly one call lacks its answer line; the only steps are a
\* change of the terminal's size, which leaves the session as it is, and the
\* return of the call, which appends the one reply-or-error line (or, on the
\* nil handle of a failed initialization, ends the program in a panic).
\* Outside a call no call lacks its answer line.
C13_CallBlocksLoop ==
  /\ [](pc = "awaiting" =>
          /\ \A k \in Runes \cup ScrollKeys \cup {"backspace"} : ~ENABLED UpdateKey(k)
          /\ \A k \in QuitKeys : ~ENABLED UpdateQuit(k)
          /\ \A e \in {"resize", "blink"} : ~ENABLED UpdateOther(e)
          /\ \A e \in Errors : ~ENABLED UpdateErrMsg(e)
          /\ ~ENABLED UpdateEnter
          /\ calls - BotEntries(messages) = 1)
  /\ [](pc \in {"idle", "terminal"} => calls = BotEntries(messages))
  /\ [][pc = "awaiting" =>
          \/ pc' = "awaiting" /\ UNCHANGED SessionFields
          \/ /\ pc' = "idle"
             /\ messages' = Append(messages, Last(messages'))
             /\ ~IsUserEntry(Last(messages'))
             /\ calls' = calls
          \/ pc' = "crashed" /\ claudeLLM = "nil" /\ UNCHANGED SessionFields
       ]_vars

\* the terminal has been resized while the call of a typed input is outstanding
C13_Witness ==
  /\ pc = "awaiting" /\ build = "main" /\ width # termCols
  /\ heldInput = <<"a">> /\ calls = 2

\* C14 (as stated): when Update has handled the resize of the terminal, the
\* message pane and the input area have the dimensions the layout gives for
\* the new size, and after a resize to fewer rows the message pane of the
\* next render is strictly lower than before and at least 1 row high.
\* Stated for the sizes that leave every region at least one cell, before
\* and after the resize.
C14_ResizeUpdatesGeometry ==
  [][(LayoutResize /\ build = "main" /\ ~claudeInitErr
        /\ termCols >= 26 /\ termRows >= 8 /\ termCols' >= 26 /\ termRows' >= 8) =>
       /\ vpHeight' = InitialLayout(build, termCols', termRows').messagesVPHeight
       /\ layout'.messagesVPWidth = InitialLayout(build, termCols', termRows').messagesVPWidth
       /\ layout'.inputTextareaWidth = InitialLayout(build, termCols', termRows').inputTextareaWidth
       /\ (termRows' < termRows =>
             /\ RenderedMessageHeight(vpHeight', termCols', termRows')
                  < RenderedMessageHeight(vpHeight, termCols, termRows)
             /\ RenderedMessageHeight(vpHeight', termCols', termRows') >= 1)
    ]_vars

\* C15 (as stated): for every terminal size the heights View gives the
\* stacked regions add up to the rows, header + message pane + input +
\* status bar = rows, the sidebar is as high as message pane plus input, the
\* same holds of the heights initialModel gives the widgets, and no region
\* has a negative height.
C15_HeightsAddUp ==
  build = "main" =>
    LET v == ViewRegions(termCols, termRows)
        l == InitialLayout(build, termCols, termRows)
    IN /\ v.headerHeight + v.messageHeight + v.textareaHeight + v.statusHeight = termRows
       /\ v.sidebarHeight = v.messageHeight + v.textareaHeight
       /\ l.sidebarVPHeight = l.messagesVPHeight + l.inputTextareaHeight
       /\ v.headerHeight >= 0 /\ v.messageHeight >= 0 /\ v.textareaHeight >= 0
       /\ v.statusHeight >= 0 /\ v.sidebarHeight >= 0
       /\ l.sidebarVPHeight >= 0 /\ l.messagesVPHeight >= 0 /\ l.inputTextareaHeight >= 0

\* C16: in the step of every dispatched event the textarea and the viewport
\* have both taken the event: a space typed into a focused textarea with
\* room is in the buffer and has paged a pane of some height down, an arrow
\* has moved the pane, a quit key has passed through both, and the value
\* the Enter case
\* reads, sends and puts in the user's line is the buffer after the
\* textarea handled Enter, line break included.
C16_DualDispatch ==
  [][ /\ \A k \in Runes \cup ScrollKeys \cup {"backspace"} :
           UpdateKey(k) =>
             /\ input' = TextareaUpdate(k, input, focus, charLimit, insertNewline)
             /\ YOffset' = ViewportUpdate(k, vpLines, YOffset, vpHeight)
      /\ (UpdateKey(" ") /\ focus /\ Len(input) < charLimit =>
            /\ input' = Append(input, " ")
            /\ (vpHeight >= 1 /\ ~AtBottom(vpLines, YOffset, vpHeight) => YOffset' > YOffset))
      /\ (UpdateKey("up") /\ YOffset > 0 => YOffset' = YOffset - 1)
      /\ \A k \in QuitKeys :
           UpdateQuit(k) =>
             /\ input' = TextareaUpdate(k, input, focus, charLimit, insertNewline)
             /\ YOffset' = ViewportUpdate(k, vpLines, YOffset, vpHeight)
      /\ \A e \in {"resize", "blink"} :
           UpdateOther(e) =>
             /\ input' = TextareaUpdate(e, input, focus, charLimit, insertNewline)
             /\ YOffset' = ViewportUpdate(e, vpLines, YOffset, vpHeight)
      /\ (UpdateEnter =>
            /\ pending' = TextareaUpdate("enter", input, focus, charLimit, insertNewline)
            /\ (focus => pending' = Append(input, NL))
            /\ Letters(AfterPrefix(Last(messages'), YouPrefix)) = Letters(pending'))
    ]_vars

\* a space typed on a fresh session is in the buffer and has paged the
\* welcome text down
C16_Witness ==
  /\ pc = "idle" /\ messages = <<>> /\ ~claudeInitErr
  /\ input = <<" ">> /\ heldInput = <<" ">>
  /\ YOffset > 0 /\ AtBottom(vpLines, YOffset, vpHeight)

\* every line of a transcript entry, its styling apart, is at most w long
LinesFit(entry, w) ==
  \A i \in 1..Len(SplitNL(Unstyled(entry))) : Len(SplitNL(Unstyled(entry))[i]) <= w

\* C17 (as stated): on a message pane of width w >= 1 every line of the
\* entry appended for a user input and of the entry appended for a reply or
\* a failed call, speaker prefix included, is at most w long.
C17_LinesFitPane ==
  [][ /\ (UpdateEnter /\ input # <<>> /\ build = "main" /\ width' - 25 >= 1 =>
            LinesFit(Last(messages'), width' - 25))
      /\ (CallReturn /\ pc' = "idle" /\ build = "main" /\ width - 25 >= 1 =>
            LinesFit(Last(messages'), width - 25))
    ]_vars

\* C18: between events the input buffer never holds more than the character
\* limit, and a character key dispatched to a focused textarea whose buffer
\* is at the limit changes neither the buffer nor the transcript nor the
\* recorded error, and issues no call.
C18_CharLimit ==
  /\ [](Len(input) <= CharLimit /\ Len(heldInput) <= CharLimit)
  /\ [][\A k \in Runes :
          UpdateKey(k) /\ Len(input) >= CharLimit =>
            UNCHANGED <<input, messages, vpLines, err, calls, pending, pc>>]_vars

\* the buffer is at the limit in a session that has completed a commit
C18_Witness ==
  /\ pc = "idle" /\ focus /\ charLimit = CharLimit
  /\ Len(input) = CharLimit /\ input = <<"a">>
  /\ Len(messages) = 2

\* C19: a step that is not the handling of a commit key (not its part up to
\* the call, not its part from the call's return) leaves the transcript and
\* the content of the message pane as they are and issues no call; the step
\* of an error message sets the recorded error and changes nothing else of
\* the session, and no other step changes the recorded error.
C19_NonCommitFrame ==
  [][ /\ (~(UpdateEnter \/ CallReturn) =>
            UNCHANGED <<messages, vpLines, calls, pending>>)
      /\ \A e \in Errors :
           UpdateErrMsg(e) =>
             /\ err' = e
             /\ UNCHANGED <<messages, vpLines, YOffset, input, calls, pending, pc,
                            claudeInitErr, focus>>
      /\ (err' # err => \E e \in Errors : UpdateErrMsg(e))
    ]_vars

\* an error message has been recorded in a session with a transcript and a
\* typed buffer
C19_Witness ==
  /\ pc = "idle" /\ err = "e1"
  /\ Len(messages) = 2 /\ input = <<"a">>

\* C20: while the call of a commit is outstanding the input buffer is
\* already empty, and it is empty when the handler has completed, after a
\* reply and after a failed call alike.
C20_BufferClearedOnCommit ==
  /\ [](pc = "awaiting" => input = <<>>)
  /\ [][UpdateEnter =>
          /\ input' = <<>>
          /\ pending' = TextareaUpdate("enter", input, focus, charLimit, insertNewline)]_vars
  /\ [][pc = "awaiting" /\ pc' = "idle" => input' = <<>> /\ heldInput' = <<>>]_vars

\* the commit of a typed input has completed on a failed call, the buffer empty
C20_Witness ==
  /\ pc = "idle" /\ input = <<>>
  /\ Len(messages) = 2
  /\ Letters(AfterPrefix(messages[1], YouPrefix)) = <<"a">>
  /\ IsErrorEntry(messages[2])

\* C21: the prompt of a call is a function of the input buffer at its commit
\* alone, the buffer as the textarea left it after the commit key (with the
\* line break of a focused textarea), whatever the transcript held before,
\* and every call is made with the same options: no earlier line of the
\* transcript is part of what is sent.
C21_PromptFromBufferOnly ==
  /\ [](pc = "awaiting" =>
          /\ pending = (IF focus THEN Append(heldInput, NL) ELSE heldInput)
          /\ callOptions = [maxTokens |-> 2048, temperatureTenths |-> 5, topK |-> 250])
  /\ [](callOptions = (IF calls = 0 THEN NoOptions ELSE CallOptions))
  /\ [][UpdateEnter =>
          /\ pending' = (IF focus THEN Append(input, NL) ELSE input)
          /\ callOptions' = CallOptions]_vars
  /\ [][pc = "awaiting" => UNCHANGED <<pending, callOptions>> \/ pc' = "idle"]_vars

\* the second commit of the same buffer is outstanding: the first was made
\* on an empty transcript, this one on a transcript of two lines
C21_Witness ==
  /\ pc = "awaiting" /\ calls = 2
  /\ Len(heldMessages) = 2 /\ heldInput = <<"a">>
  /\ Letters(AfterPrefix(messages[1], YouPrefix)) = <<"a">>
  /\ pending = <<"a", NL>>

====
